---- MODULE Spec2Model ----
(***************************************************************************)
(* CodeBase Normalizer (src/normalized_code.py): the interactive file     *)
(* selection session of CodebaseNormalizer and the generation of the      *)
(* aggregate document.                                                     *)
(*                                                                         *)
(* Strings are sequences of character codes (ASCII / Latin-1 code points), *)
(* so that ordering, wildcard matching, decoding and newline handling are  *)
(* computed as the code computes them.  A path is the sequence of its      *)
(* name components below the filesystem root "/".                          *)
(***************************************************************************)
EXTENDS Integers, Sequences, FiniteSets, TLC

VARIABLES
    selected_files,     \* self.selected_files: set of paths
    excluded_patterns,  \* self.excluded_patterns: set of pattern strings
    stack,              \* the active navigate_directory calls, innermost last
    fs,                 \* the filesystem below the scan root (not the output file)
    out,                \* the content of the output destination, NoDoc when absent
    console,            \* the messages printed by the last operation
    gens                \* the number of documents generated in this session

vars == <<selected_files, excluded_patterns, stack, fs, out, console, gens>>

(***************************************************************************)
(* Names and paths of the modelled directory tree                          *)
(*   /r/env.c   /r/b   /r/env/k.c   /r/N.txt (the output destination)      *)
(***************************************************************************)
NameR    == <<114>>                       \* "r"
NameEnv  == <<101, 110, 118>>             \* "env"
NameEnvC == <<101, 110, 118, 46, 99>>     \* "env.c"
NameB    == <<98>>                        \* "b"
NameKC   == <<107, 46, 99>>               \* "k.c"
NameOut  == <<78, 46, 116, 120, 116>>     \* "N.txt", the default output name
NameCsv  == <<100, 46, 99, 115, 118>>     \* "d.csv", present in some trees only
NameA    == <<97>>                        \* "a", a second directory of some trees

Root  == <<NameR>>
PEnvC == <<NameR, NameEnvC>>
PB    == <<NameR, NameB>>
PEnv  == <<NameR, NameEnv>>
PKC   == <<NameR, NameEnv, NameKC>>
PCsv  == <<NameR, NameCsv>>
PA    == <<NameR, NameA>>
PAK   == <<NameR, NameA, NameKC>>
\* Path(output_file) is relative: it resolves against the process's working
\* directory, which is the scan root when the user accepts the default ".".
Dest  == Root \o <<NameOut>>

Universe == {Root, PEnvC, PB, PEnv, PKC, PCsv, PA, PAK, Dest}
FsPaths  == Universe \ {Dest}

NoDoc == <<>>

(***************************************************************************)
(* Strings                                                                 *)
(***************************************************************************)
Lower(c) == IF c \in 65..90 THEN c + 32 ELSE c

LowerStr(s) == [i \in 1..Len(s) |-> Lower(s[i])]

Min2(a, b) == IF a < b THEN a ELSE b

\* Python's str < str: lexicographic by code point
RECURSIVE StrLess(_, _)
StrLess(s, t) ==
    IF s = <<>> THEN t # <<>>
    ELSE IF t = <<>> THEN FALSE
    ELSE IF Head(s) # Head(t) THEN Head(s) < Head(t)
    ELSE StrLess(Tail(s), Tail(t))

\* PurePath.__lt__: the lists of parts are compared, part by part
RECURSIVE PathLess(_, _)
PathLess(p, q) ==
    IF p = <<>> THEN q # <<>>
    ELSE IF q = <<>> THEN FALSE
    ELSE IF Head(p) # Head(q) THEN StrLess(Head(p), Head(q))
    ELSE PathLess(Tail(p), Tail(q))

\* "/".join(parts) of a relative path; str(Path('.')) is "." for no parts
RECURSIVE JoinParts(_)
JoinParts(p) ==
    IF p = <<>> THEN <<>>
    ELSE IF Len(p) = 1 THEN p[1]
    ELSE p[1] \o <<47>> \o JoinParts(Tail(p))

RelStr(parts) == IF parts = <<>> THEN <<46>> ELSE JoinParts(parts)

\* str(path) of an absolute path
AbsStr(p) == <<47>> \o JoinParts(p)

\* a sort of paths by their full path strings instead
RECURSIVE SortedByString(_)
SortedByString(S) ==
    IF S = {} THEN <<>>
    ELSE LET m == CHOOSE x \in S : \A y \in S : x = y \/ StrLess(AbsStr(x), AbsStr(y))
         IN  <<m>> \o SortedByString(S \ {m})

\* sorted(set of Path)
RECURSIVE SortedPaths(_)
SortedPaths(S) ==
    IF S = {} THEN <<>>
    ELSE LET m == CHOOSE x \in S : \A y \in S : x = y \/ PathLess(x, y)
         IN  <<m>> \o SortedPaths(S \ {m})

\* sorted(list of str)
RECURSIVE SortedStrs(_)
SortedStrs(S) ==
    IF S = {} THEN <<>>
    ELSE LET m == CHOOSE x \in S : \A y \in S : x = y \/ StrLess(x, y)
         IN  <<m>> \o SortedStrs(S \ {m})

PathName(p) == p[Len(p)]
Parent(p)   == SubSeq(p, 1, Len(p) - 1)

IsUnder(p, base) ==
    /\ Len(p) >= Len(base)
    /\ SubSeq(p, 1, Len(base)) = base

\* path.relative_to(base), defined when IsUnder(p, base)
RelativeTo(p, base) == SubSeq(p, Len(base) + 1, Len(p))

(***************************************************************************)
(* The filesystem                                                          *)
(***************************************************************************)
Kind(p) ==
    IF p = Dest THEN (IF out = NoDoc THEN "absent" ELSE "file")
    ELSE fs[p].kind

is_file(p) == Kind(p) = "file"
is_dir(p)  == Kind(p) = "dir"

\* directory.iterdir()
Children(d) == {p \in Universe : Parent(p) = d /\ Kind(p) # "absent"}

\* directory.rglob('*'): every entry below d
Descendants(d) ==
    {p \in Universe :
        /\ Len(p) > Len(d)
        /\ IsUnder(p, d)
        /\ \A k \in (Len(d) + 1)..Len(p) : Kind(SubSeq(p, 1, k)) # "absent"}

(***************************************************************************)
(* Exclusion patterns                                                      *)
(***************************************************************************)
PatEnv   == <<101, 110, 118>>        \* 'env', one of the default patterns
PatStarC == <<42, 46, 99>>           \* '*.c'
PatBrack == <<91>>                   \* '[', not a valid regular expression

\* __init__: the default exclusion patterns (those that name an entry of the
\* modelled tree)
DefaultExcluded == {PatEnv}

\* what the user types at "Enter exclusion pattern: "
AddablePatterns == {PatStarC, PatBrack}

\* re.compile raises re.error: within the modelled alphabet, an opening
\* bracket that is never closed ("unterminated character set")
PatternRaises(pat) == \E i \in 1..Len(pat) : pat[i] = 91 /\ \A j \in (i + 1)..Len(pat) : pat[j] # 93

\* re.match('^' + pattern.replace('*', '.*').replace('?', '.') + '$', text,
\* re.IGNORECASE) for a pattern that compiles: '*' became '.*', '?' became
\* '.', and a '.' written in the pattern is the regular expression's dot too
RECURSIVE RegexMatch(_, _)
RegexMatch(text, pat) ==
    IF pat = <<>> THEN text = <<>>
    ELSE IF Head(pat) = 42
         THEN \/ RegexMatch(text, Tail(pat))
              \/ text # <<>> /\ RegexMatch(Tail(text), pat)
    ELSE IF Head(pat) \in {63, 46}
         THEN text # <<>> /\ RegexMatch(Tail(text), Tail(pat))
    ELSE /\ text # <<>>
         /\ Lower(Head(text)) = Lower(Head(pat))
         /\ RegexMatch(Tail(text), Tail(pat))

match_pattern(text, pattern) == RegexMatch(text, pattern)

\* should_exclude_path returns True: some pattern matches the relative path
\* or the name
ExcludeHit(path, base, patterns) ==
    \E pat \in patterns :
        /\ ~PatternRaises(pat)
        /\ \/ match_pattern(RelStr(RelativeTo(path, base)), pat)
           \/ match_pattern(PathName(path), pat)

\* The outcomes of should_exclude_path.  The patterns are tried in the set's
\* iteration order, which the program does not fix: a pattern that does not
\* compile raises re.error unless a matching pattern was tried before it.
should_exclude_path(path, base, patterns) ==
    LET bad == \E pat \in patterns : PatternRaises(pat)
        hit == ExcludeHit(path, base, patterns)
    IN  (IF hit THEN {"exclude"} ELSE IF bad THEN {} ELSE {"keep"})
        \cup (IF bad THEN {"raise"} ELSE {})

(***************************************************************************)
(* Text classification                                                     *)
(***************************************************************************)
\* self.common_code_extensions (those of the modelled names)
common_code_extensions == {<<46, 99>>, <<46, 104>>, <<46, 116, 120, 116>>}   \* .c .h .txt

\* suffixes that mimetypes.guess_type maps to a text/ type
MimeTextSuffixes == {<<46, 99, 115, 118>>}   \* .csv

SampleLen == 1024

\* Path.suffix: from the last dot, unless that dot is first or last in the name
Suffix(name) ==
    LET dots == {i \in 1..Len(name) : name[i] = 46}
    IN  IF dots = {} THEN <<>>
        ELSE LET i == CHOOSE k \in dots : \A j \in dots : j <= k
             IN  IF 1 < i /\ i < Len(name) THEN SubSeq(name, i, Len(name)) ELSE <<>>

\* open(path, 'rb') / open(path, 'r') succeeds
CanOpen(p) == p # Dest /\ fs[p].kind = "file" /\ fs[p].readable

\* a classifier that lets the sampled content decide, whatever the name
is_text_file_by_content(p) ==
    /\ CanOpen(p)
    /\ LET chunk == SubSeq(fs[p].data, 1, Min2(SampleLen, Len(fs[p].data)))
       IN  chunk = <<>> \/ \A i \in 1..Len(chunk) : chunk[i] # 0

is_text_file(p) ==
    \/ LowerStr(Suffix(PathName(p))) \in common_code_extensions
    \/ LowerStr(Suffix(PathName(p))) \in MimeTextSuffixes
    \/ /\ CanOpen(p)
       /\ LET chunk == SubSeq(fs[p].data, 1, Min2(SampleLen, Len(fs[p].data)))
          IN  chunk = <<>> \/ \A i \in 1..Len(chunk) : chunk[i] # 0

(***************************************************************************)
(* scan_directory                                                          *)
(***************************************************************************)
\* the scan raises re.error out of should_exclude_path (only PermissionError
\* is caught): possible as soon as one child is tested
ScanMayRaise(d) ==
    \E c \in Children(d) : "raise" \in should_exclude_path(c, d, excluded_patterns)

\* the scan returns: no child's test raised
ScanMayReturn(d) ==
    \A c \in Children(d) : should_exclude_path(c, d, excluded_patterns) # {"raise"}

ScanKept(d) == {c \in Children(d) : ~ExcludeHit(c, d, excluded_patterns)}

\* files_info: the entries that are kept, sorted; is_text is that of the scan
scan_directory(d) ==
    [directories |-> SortedPaths({c \in ScanKept(d) : is_dir(c)}),
     files       |-> SortedPaths({c \in ScanKept(d) : is_file(c)})]

all_items(d) == scan_directory(d).directories \o scan_directory(d).files

SeqRange(s) == {s[i] : i \in 1..Len(s)}

(***************************************************************************)
(* Reading a selected file: decoding and newline handling                  *)
(***************************************************************************)
\* bytes.decode('utf-8') succeeds: one-byte characters and two-byte
\* sequences; every other byte >= 128 of the modelled alphabet is invalid
RECURSIVE Utf8Valid(_)
Utf8Valid(b) ==
    IF b = <<>> THEN TRUE
    ELSE IF b[1] < 128 THEN Utf8Valid(Tail(b))
    ELSE IF b[1] \in 194..223 /\ Len(b) >= 2 /\ b[2] \in 128..191
         THEN Utf8Valid(SubSeq(b, 3, Len(b)))
    ELSE FALSE

\* the code points of valid UTF-8 bytes
RECURSIVE Utf8Decode(_)
Utf8Decode(b) ==
    IF b = <<>> THEN <<>>
    ELSE IF b[1] < 128 THEN <<b[1]>> \o Utf8Decode(Tail(b))
    ELSE <<(b[1] - 192) * 64 + (b[2] - 128)>> \o Utf8Decode(SubSeq(b, 3, Len(b)))

\* bytes.decode('latin-1'): every byte is its own code point, never fails
Latin1Decode(b) == b

\* str.encode('utf-8') of code points below 2048, as outfile writes them
RECURSIVE Utf8Encode(_)
Utf8Encode(s) ==
    IF s = <<>> THEN <<>>
    ELSE IF s[1] < 128 THEN <<s[1]>> \o Utf8Encode(Tail(s))
    ELSE <<192 + (s[1] \div 64), 128 + (s[1] % 64)>> \o Utf8Encode(Tail(s))

\* open(path, 'r') reads in universal-newlines mode: '\r\n' and a lone '\r'
\* come back as '\n'
RECURSIVE UniversalNewlines(_)
UniversalNewlines(s) ==
    IF s = <<>> THEN <<>>
    ELSE IF s[1] = 13
         THEN IF Len(s) >= 2 /\ s[2] = 10
              THEN <<10>> \o UniversalNewlines(SubSeq(s, 3, Len(s)))
              ELSE <<10>> \o UniversalNewlines(Tail(s))
    ELSE <<s[1]>> \o UniversalNewlines(Tail(s))

\* outfile.write(content); if not content.endswith('\n'): outfile.write('\n')
WithTrailingNewline(content) ==
    IF content # <<>> /\ content[Len(content)] = 10 THEN content ELSE content \o <<10>>

(***************************************************************************)
(* The aggregate document: the sequence of the segments written            *)
(***************************************************************************)
Seg(t, p, v) == [t |-> t, path |-> p, val |-> v]

Msg(kind, text, n) == [kind |-> kind, text |-> text, n |-> n]

\* what generation reads from the destination when the destination itself is
\* selected: the part of the document that was flushed so far (nothing, or
\* the beginning of the banner's rule line)
SelfReadOutcomes == {<<>>, <<61, 61>>}

\* the bytes of a file that opens
FileBytes(p, selfRead) == IF p = Dest THEN selfRead ELSE fs[p].data

\* file_path.stat() succeeds (the destination exists: it was just opened)
StatOk(p) == IF p = Dest THEN TRUE ELSE fs[p].kind # "absent"

\* open(file_path, 'r') succeeds
OpenOk(p) == IF p = Dest THEN TRUE ELSE fs[p].kind = "file" /\ fs[p].readable

\* a reader without the second attempt: a file that is not UTF-8 is an error
ReadAndWriteNoFallback(p, selfRead) ==
    IF ~OpenOk(p)
    THEN [segs |-> <<Seg("error", p, <<>>)>>, ok |-> FALSE]
    ELSE LET b == FileBytes(p, selfRead)
         IN  IF Utf8Valid(b)
             THEN [segs |-> <<Seg("content", p,
                        Utf8Encode(WithTrailingNewline(UniversalNewlines(Utf8Decode(b)))))>>,
                   ok |-> TRUE]
             ELSE [segs |-> <<Seg("error", p, <<>>)>>, ok |-> FALSE]

\* lines 652-674: the content part of one block, and whether the file counts
\* as successful
ReadAndWrite(p, selfRead) ==
    IF ~OpenOk(p)
    THEN [segs |-> <<Seg("error", p, <<>>)>>, ok |-> FALSE]
    ELSE LET b == FileBytes(p, selfRead)
         IN  IF Utf8Valid(b)
             THEN [segs |-> <<Seg("content", p,
                        Utf8Encode(WithTrailingNewline(UniversalNewlines(Utf8Decode(b)))))>>,
                   ok |-> TRUE]
             ELSE [segs |-> <<Seg("warning", p, <<>>),
                              Seg("content", p,
                        Utf8Encode(WithTrailingNewline(UniversalNewlines(Latin1Decode(b)))))>>,
                   ok |-> TRUE]

\* the display path of a block: relative to the base, or the path itself
ShownPath(p, base) ==
    IF IsUnder(p, base) THEN RelStr(RelativeTo(p, base)) ELSE AbsStr(p)

\* an iteration that leaves a path whose stat fails out of both counters
ProcessFileUncounted(acc, p, base, selfRead) ==
    LET head == <<Seg("head", p, ShownPath(p, base))>>
    IN  IF ~StatOk(p)
        THEN [acc EXCEPT !.segs = @ \o head,
                         !.msgs = @ \o <<Msg("error", "Error processing", 0)>>]
        ELSE LET size == IF p # Dest /\ fs[p].kind = "dir" THEN 0
                         ELSE Len(FileBytes(p, selfRead))
                 rw   == ReadAndWrite(p, selfRead)
             IN  [acc EXCEPT !.segs = @ \o head \o <<Seg("size", p, size)>>
                                        \o rw.segs \o <<Seg("sep", p, <<>>)>>,
                             !.ok = IF rw.ok THEN @ + 1 ELSE @,
                             !.failed = IF rw.ok THEN @ ELSE @ + 1]

\* lines 637-680: one iteration of the loop over sorted(self.selected_files).
\* acc: the segments written, the two counters, the messages printed.
ProcessFile(acc, p, base, selfRead) ==
    LET head == <<Seg("head", p, ShownPath(p, base))>>
    IN  IF ~StatOk(p)
        THEN \* stat raises after the first header lines: the outer handler
             [acc EXCEPT !.segs = @ \o head,
                         !.failed = @ + 1,
                         !.msgs = @ \o <<Msg("error", "Error processing", 0)>>]
        ELSE LET size == IF p # Dest /\ fs[p].kind = "dir" THEN 0
                         ELSE Len(FileBytes(p, selfRead))
                 rw   == ReadAndWrite(p, selfRead)
             IN  [acc EXCEPT !.segs = @ \o head \o <<Seg("size", p, size)>>
                                        \o rw.segs \o <<Seg("sep", p, <<>>)>>,
                             !.ok = IF rw.ok THEN @ + 1 ELSE @,
                             !.failed = IF rw.ok THEN @ ELSE @ + 1]

RECURSIVE ProcessFiles(_, _, _, _)
ProcessFiles(acc, paths, base, selfRead) ==
    IF paths = <<>> THEN acc
    ELSE ProcessFiles(ProcessFile(acc, Head(paths), base, selfRead), Tail(paths), base, selfRead)

(***************************************************************************)
(* generate_tree_structure                                                 *)
(***************************************************************************)
TreeLine(t, text, prefix) == [t |-> t, text |-> text, prefix |-> prefix]

\* rel_path.parent and rel_path.name of a path under the base
RelDir(p, base)  == Parent(RelativeTo(p, base))
RelName(p, base) == IF p = base THEN <<>> ELSE PathName(p)

\* list(dir_files.keys())[-1]: the group that was created last while the
\* sorted selection was walked
LastKey(sel, base) ==
    LET order == SortedPaths({p \in sel : IsUnder(p, base)})
        first(d) == CHOOSE i \in 1..Len(order) :
                        /\ RelDir(order[i], base) = d
                        /\ \A j \in 1..(i - 1) : RelDir(order[j], base) # d
        dirs == {RelDir(order[i], base) : i \in 1..Len(order)}
    IN  CHOOSE d \in dirs : \A e \in dirs : first(e) <= first(d)

\* the lines of one group
GroupLines(d, sel, base) ==
    LET files == SortedStrs({RelName(p, base) : p \in {q \in sel : IsUnder(q, base) /\ RelDir(q, base) = d}})
        last  == LastKey(sel, base)
        line(i) ==
            LET is_last == i = Len(files) /\ (d = <<>> \/ d = last)
            IN  TreeLine("file", files[i],
                    IF is_last /\ d = <<>> /\ d = last THEN "last"
                    ELSE IF d # <<>> THEN "nested" ELSE "tee")
    IN  (IF d # <<>> THEN <<TreeLine("dir", RelStr(d), "tee")>> ELSE <<>>)
        \o [i \in 1..Len(files) |-> line(i)]

RECURSIVE GroupsLines(_, _, _)
GroupsLines(dirs, sel, base) ==
    IF dirs = <<>> THEN <<>>
    ELSE GroupLines(Head(dirs), sel, base) \o GroupsLines(Tail(dirs), sel, base)

\* a rendering that lists the groups from the last to the first
generate_tree_reversed(sel, base) ==
    LET dirs == SortedPaths({RelDir(p, base) : p \in {q \in sel : IsUnder(q, base)}})
    IN  IF sel = {} THEN <<>>
        ELSE <<TreeLine("root", PathName(base), "")>>
             \o GroupsLines([i \in 1..Len(dirs) |-> dirs[Len(dirs) + 1 - i]], sel, base)

generate_tree_structure(sel, base) ==
    IF sel = {} THEN <<>>
    ELSE <<TreeLine("root", PathName(base), "")>>
         \o GroupsLines(SortedPaths({RelDir(p, base) : p \in {q \in sel : IsUnder(q, base)}}),
                        sel, base)

(***************************************************************************)
(* generate_normalized_file                                                *)
(***************************************************************************)
\* what the destination does: it opens and takes every write, it cannot be
\* opened, or it fails while the summary is written
DestOutcomes == {"ok", "open_fails", "write_fails"}

\* a writer whose loop ends at the first selected path that cannot be stat-ed
WriteDocumentBreaking(sel, base, selfRead, dest) ==
    LET start == [segs |-> <<Seg("banner", base, Cardinality(sel)),
                             Seg("tree", base, generate_tree_structure(sel, base))>>,
                  ok |-> 0, failed |-> 0, msgs |-> <<>>]
        order == SortedPaths(sel)
        gone  == {i \in 1..Len(order) : ~StatOk(order[i])}
        n     == IF gone = {} THEN Len(order)
                 ELSE CHOOSE i \in gone : \A j \in gone : i <= j
        done  == ProcessFiles(start, SubSeq(order, 1, n), base, selfRead)
    IN  IF dest = "write_fails"
        THEN [done EXCEPT !.msgs = @ \o <<Msg("error", "Failed to create normalized file", 0)>>]
        ELSE [done EXCEPT
                !.segs = @ \o <<Seg("summary", base, <<done.ok, done.failed>>)>>,
                !.msgs = @ \o <<Msg("success", "Normalized file generated", 0),
                                Msg("info", "Processed files successfully", done.ok)>>
                           \o (IF done.failed > 0
                               THEN <<Msg("error", "Failed to process files", done.failed)>>
                               ELSE <<>>)]

\* lines 611-692 with the destination open: the document written
WriteDocument(sel, base, selfRead, dest) ==
    LET start == [segs |-> <<Seg("banner", base, Cardinality(sel)),
                             Seg("tree", base, generate_tree_structure(sel, base))>>,
                  ok |-> 0, failed |-> 0, msgs |-> <<>>]
        done  == ProcessFiles(start, SortedPaths(sel), base, selfRead)
    IN  IF dest = "write_fails"
        THEN [done EXCEPT !.msgs = @ \o <<Msg("error", "Failed to create normalized file", 0)>>]
        ELSE [done EXCEPT
                !.segs = @ \o <<Seg("summary", base, <<done.ok, done.failed>>)>>,
                !.msgs = @ \o <<Msg("success", "Normalized file generated", 0),
                                Msg("info", "Processed files successfully", done.ok)>>
                           \o (IF done.failed > 0
                               THEN <<Msg("error", "Failed to process files", done.failed)>>
                               ELSE <<>>)]

\* the whole method: [doc, msgs], doc being the destination's new content
generate_normalized_file(sel, base, selfRead, dest, old) ==
    IF sel = {}
    THEN [doc |-> old, msgs |-> <<Msg("error", "No files selected", 0)>>]
    ELSE IF dest = "open_fails"
    THEN [doc |-> old, msgs |-> <<Msg("error", "Failed to create normalized file", 0)>>]
    ELSE LET w == WriteDocument(sel, base, selfRead, dest)
         IN  [doc |-> w.segs, msgs |-> w.msgs]

(***************************************************************************)
(* Selection helpers                                                       *)
(***************************************************************************)
\* FileInfo.is_text of a scanned entry: False for a directory
InfoIsText(p) == is_file(p) /\ is_text_file(p)

\* add_directory_files: the files it adds (each is counted once).  It is only
\* called on an entry of a listing, hence with patterns that all compile.
add_directory_files(directory) ==
    {item \in Descendants(directory) :
        /\ is_file(item)
        /\ should_exclude_path(item, Parent(directory), excluded_patterns) = {"keep"}
        /\ is_text_file(item)}

\* lines 404-431: what one entered number selects
SelectIndex(idx, items) ==
    IF idx \notin 1..Len(items) THEN {}
    ELSE IF is_file(items[idx]) /\ InfoIsText(items[idx]) THEN {items[idx]}
    ELSE IF is_dir(items[idx]) THEN add_directory_files(items[idx])
    ELSE {}

RECURSIVE SumCounts(_, _)
SumCounts(idxs, items) ==
    IF idxs = {} THEN 0
    ELSE LET i == CHOOSE k \in idxs : TRUE
         IN  Cardinality(SelectIndex(i, items)) + SumCounts(idxs \ {i}, items)

\* the regular expressions typed at "Enter regex pattern": 'c', '^k', '['
RegexInputs == {<<99>>, <<94, 107>>, <<91>>}

\* regex.search(name) for a pattern of literals and dots with an optional
\* leading '^', compiled with re.IGNORECASE
RECURSIVE MatchHere(_, _)
MatchHere(text, pat) ==
    IF pat = <<>> THEN TRUE
    ELSE /\ text # <<>>
         /\ (Head(pat) = 46 \/ Lower(Head(pat)) = Lower(Head(text)))
         /\ MatchHere(Tail(text), Tail(pat))

regex_search(name, pat) ==
    IF pat # <<>> /\ Head(pat) = 94
    THEN MatchHere(name, Tail(pat))
    ELSE \E k \in 0..Len(name) : MatchHere(SubSeq(name, k + 1, Len(name)), pat)

\* lines 468-472: the matches among the listed files
RegexListed(pat, d) ==
    {p \in SeqRange(scan_directory(d).files) : regex_search(PathName(p), pat) /\ InfoIsText(p)}

\* a walk that looks only at the entries directly in d
RegexWalkedShallow(pat, d) ==
    {item \in Children(d) :
        /\ is_file(item)
        /\ should_exclude_path(item, d, excluded_patterns) = {"keep"}
        /\ regex_search(PathName(item), pat)
        /\ is_text_file(item)}

\* lines 474-479: the matches of the recursive walk (patterns all compile)
RegexWalked(pat, d) ==
    {item \in Descendants(d) :
        /\ is_file(item)
        /\ should_exclude_path(item, d, excluded_patterns) = {"keep"}
        /\ regex_search(PathName(item), pat)
        /\ is_text_file(item)}

\* the walk can raise re.error out of should_exclude_path
WalkMayRaise(d) ==
    \E item \in Descendants(d) :
        is_file(item) /\ "raise" \in should_exclude_path(item, d, excluded_patterns)

\* the walk can complete
WalkMayReturn(d) ==
    \A item \in Descendants(d) :
        is_file(item) => should_exclude_path(item, d, excluded_patterns) # {"raise"}

(***************************************************************************)
(* The session: run() and the navigate_directory loop                      *)
(***************************************************************************)
\* the session is followed up to its MaxGenerations-th generation
MaxGenerations == 1

\* the largest number typed at a prompt
MaxIndex == 4

cwd == stack[Len(stack)]

Running == stack # <<>> /\ gens < MaxGenerations

\* an iteration of the loop whose scan returned: the menu is shown
Menu == Running /\ ScanMayReturn(cwd)

Pop == SubSeq(stack, 1, Len(stack) - 1)

\* the scan at the top of the loop raises: run() catches it and returns
ScanRaises ==
    /\ Running
    /\ ScanMayRaise(cwd)
    /\ stack' = <<>>
    /\ console' = <<Msg("error", "Unexpected error", 0)>>
    /\ UNCHANGED <<selected_files, excluded_patterns, fs, out, gens>>

\* '0': break; the caller's loop goes on, or run() returns
Choice0 ==
    /\ Menu
    /\ stack' = Pop
    /\ console' = <<>>
    /\ UNCHANGED <<selected_files, excluded_patterns, fs, out, gens>>

\* '1' on an empty listing
Choice1NoItems ==
    /\ Menu
    /\ all_items(cwd) = <<>>
    /\ console' = <<Msg("info", "No items to select", 0)>>
    /\ UNCHANGED <<selected_files, excluded_patterns, stack, fs, out, gens>>

\* '1', then 'all'
Choice1All ==
    /\ Menu
    /\ LET items == all_items(cwd)
       IN  /\ items # <<>>
           /\ selected_files' = selected_files \cup
                    {p \in SeqRange(items) : InfoIsText(p) \/ is_dir(p)}
           /\ console' = <<Msg("success", "Selected all items", Len(items))>>
    /\ UNCHANGED <<excluded_patterns, stack, fs, out, gens>>

\* '1', then 'text'
Choice1Text ==
    /\ Menu
    /\ LET items == all_items(cwd)
           text  == {p \in SeqRange(items) : InfoIsText(p)}
       IN  /\ items # <<>>
           /\ selected_files' = selected_files \cup text
           /\ console' = <<Msg("success", "Selected text files", Cardinality(text))>>
    /\ UNCHANGED <<excluded_patterns, stack, fs, out, gens>>

\* '1', then numbers or a range: the set of the numbers entered (the notice
\* printed for each number is left out of console, the total is kept)
Choice1Numbers(idxs) ==
    /\ Menu
    /\ LET items == all_items(cwd)
           count == SumCounts(idxs, items)
       IN  /\ items # <<>>
           /\ selected_files' = selected_files \cup
                    UNION {SelectIndex(i, items) : i \in idxs}
           /\ console' = (IF count > 0
                          THEN <<Msg("success", "Total selected", count)>>
                          ELSE <<Msg("info", "No valid text files selected", 0)>>)
    /\ UNCHANGED <<excluded_patterns, stack, fs, out, gens>>

\* '1', then something that is no number: ValueError
Choice1Invalid ==
    /\ Menu
    /\ all_items(cwd) # <<>>
    /\ console' = <<Msg("error", "Invalid input", 0)>>
    /\ UNCHANGED <<selected_files, excluded_patterns, stack, fs, out, gens>>

\* '2': select all text files of the listing
Choice2 ==
    /\ Menu
    /\ LET text == {p \in SeqRange(scan_directory(cwd).files) : InfoIsText(p)}
       IN  /\ selected_files' = selected_files \cup text
           /\ console' = <<Msg("success", "Selected text files", Cardinality(text))>>
    /\ UNCHANGED <<excluded_patterns, stack, fs, out, gens>>

\* '3': select all files of the listing
Choice3 ==
    /\ Menu
    /\ LET files == scan_directory(cwd).files
       IN  /\ selected_files' = selected_files \cup SeqRange(files)
           /\ console' = <<Msg("success", "Selected files", Len(files))>>
    /\ UNCHANGED <<excluded_patterns, stack, fs, out, gens>>

\* '4' and the number of a directory of the listing
Choice4Open(i) ==
    /\ Menu
    /\ LET items == all_items(cwd)
       IN  /\ i \in 1..Len(items)
           /\ is_dir(items[i])
           /\ stack' = Append(stack, items[i])
    /\ console' = <<>>
    /\ UNCHANGED <<selected_files, excluded_patterns, fs, out, gens>>

\* '4' with no directory to open
Choice4NoDirs ==
    /\ Menu
    /\ scan_directory(cwd).directories = <<>>
    /\ console' = <<Msg("info", "No directories to open", 0)>>
    /\ UNCHANGED <<selected_files, excluded_patterns, stack, fs, out, gens>>

\* '4' and a number that names no directory
Choice4Invalid(i) ==
    /\ Menu
    /\ LET items == all_items(cwd)
       IN  /\ scan_directory(cwd).directories # <<>>
           /\ ~(i \in 1..Len(items) /\ is_dir(items[i]))
    /\ console' = <<Msg("error", "Invalid directory number or not a directory", 0)>>
    /\ UNCHANGED <<selected_files, excluded_patterns, stack, fs, out, gens>>

\* a regex selection that compiles its pattern only after the listed files
\* were added
Choice5InvalidLate(pat) ==
    /\ Menu
    /\ PatternRaises(pat)
    /\ selected_files' = selected_files \cup
            {p \in SeqRange(scan_directory(cwd).files) : InfoIsText(p)}
    /\ console' = <<Msg("error", "Invalid regex pattern", 0)>>
    /\ UNCHANGED <<excluded_patterns, stack, fs, out, gens>>

\* '5' with a pattern that does not compile: re.error
Choice5Invalid(pat) ==
    /\ Menu
    /\ PatternRaises(pat)
    /\ selected_files' = selected_files
    /\ console' = <<Msg("error", "Invalid regex pattern", 0)>>
    /\ UNCHANGED <<excluded_patterns, stack, fs, out, gens>>

\* '5' with a pattern that compiles: select_by_regex
Choice5(pat) ==
    /\ Menu
    /\ ~PatternRaises(pat)
    /\ WalkMayReturn(cwd)
    /\ LET listed == RegexListed(pat, cwd)
           walked == RegexWalked(pat, cwd)
       IN  /\ selected_files' = selected_files \cup listed \cup walked
           /\ console' = <<Msg("success", "Selected files matching pattern",
                               Cardinality(listed) + Cardinality(walked))>>
    /\ UNCHANGED <<excluded_patterns, stack, fs, out, gens>>

\* '5' when an exclusion pattern raises re.error during the walk: the
\* handler of select_by_regex catches it
Choice5WalkRaises(pat) ==
    /\ Menu
    /\ ~PatternRaises(pat)
    /\ WalkMayRaise(cwd)
    /\ selected_files' = selected_files \cup RegexListed(pat, cwd)
    /\ console' = <<Msg("error", "Invalid regex pattern", 0)>>
    /\ UNCHANGED <<excluded_patterns, stack, fs, out, gens>>

\* '6': remove selection
Choice6 ==
    /\ Menu
    /\ selected_files' = {}
    /\ console' = (IF selected_files # {}
                   THEN <<Msg("success", "Cleared all selections", 0)>>
                   ELSE <<Msg("info", "No files selected", 0)>>)
    /\ UNCHANGED <<excluded_patterns, stack, fs, out, gens>>

\* '7': show_current_selection
Choice7 ==
    /\ Menu
    /\ \A p \in selected_files : StatOk(p)
    /\ console' = (IF selected_files = {}
                   THEN <<Msg("info", "No files selected", 0)>>
                   ELSE <<Msg("info", "Selected Files", Cardinality(selected_files))>>)
    /\ UNCHANGED <<selected_files, excluded_patterns, stack, fs, out, gens>>

\* '7' when a selected path is gone: stat raises, run() catches it and returns
Choice7Raises ==
    /\ Menu
    /\ \E p \in selected_files : ~StatOk(p)
    /\ console' = <<Msg("error", "Unexpected error", 0)>>
    /\ stack' = <<>>
    /\ UNCHANGED <<selected_files, excluded_patterns, fs, out, gens>>

\* '8', then 'a' and a pattern
Choice8Add(pat) ==
    /\ Menu
    /\ excluded_patterns' = excluded_patterns \cup {pat}
    /\ console' = <<Msg("success", "Added exclusion pattern", 0)>>
    /\ UNCHANGED <<selected_files, stack, fs, out, gens>>

\* '8', then 'r' and a number of the sorted list of patterns
Choice8Remove(i) ==
    /\ Menu
    /\ LET patterns_list == SortedStrs(excluded_patterns)
       IN  IF i \in 1..Len(patterns_list)
           THEN /\ excluded_patterns' = excluded_patterns \ {patterns_list[i]}
                /\ console' = <<Msg("success", "Removed exclusion pattern", 0)>>
           ELSE /\ excluded_patterns' = excluded_patterns
                /\ console' = <<>>
    /\ UNCHANGED <<selected_files, stack, fs, out, gens>>

\* a clearing of the exclusion patterns that drops the selection too
Choice8ClearAll ==
    /\ Menu
    /\ excluded_patterns' = {}
    /\ selected_files' = {}
    /\ console' = <<Msg("success", "Cleared all exclusion patterns", 0)>>
    /\ UNCHANGED <<stack, fs, out, gens>>

\* '8', then 'c', confirmed
Choice8Clear ==
    /\ Menu
    /\ excluded_patterns' = {}
    /\ console' = <<Msg("success", "Cleared all exclusion patterns", 0)>>
    /\ UNCHANGED <<selected_files, stack, fs, out, gens>>

\* a refusal that comes after the destination was opened for writing
Choice9RefusedTruncates ==
    /\ Menu
    /\ selected_files = {}
    /\ out' = <<Seg("banner", cwd, 0)>>
    /\ console' = <<Msg("error", "No files selected", 0)>>
    /\ UNCHANGED <<selected_files, excluded_patterns, stack, fs, gens>>

\* '9' with nothing selected: refused before the output name is asked
Choice9Refused ==
    /\ Menu
    /\ selected_files = {}
    /\ console' = <<Msg("error", "No files selected", 0)>>
    /\ UNCHANGED <<selected_files, excluded_patterns, stack, fs, out, gens>>

\* '9': generate_normalized_file, then "Exit after generation?"
Choice9(exit, dest, selfRead) ==
    /\ Menu
    /\ selected_files # {}
    /\ LET g == generate_normalized_file(selected_files, cwd, selfRead, dest, out)
       IN  /\ out' = g.doc
           /\ console' = g.msgs
    /\ stack' = (IF exit THEN Pop ELSE stack)
    /\ gens' = gens + 1
    /\ UNCHANGED <<selected_files, excluded_patterns, fs>>

(***************************************************************************)
(* The environment: files change between selection and generation          *)
(***************************************************************************)
EnvDelete(p) ==
    /\ Running
    /\ fs[p].kind = "file"
    /\ fs' = [fs EXCEPT ![p].kind = "absent"]
    /\ UNCHANGED <<selected_files, excluded_patterns, stack, out, console, gens>>

EnvChmod(p) ==
    /\ Running
    /\ fs[p].kind = "file"
    /\ fs[p].readable
    /\ fs' = [fs EXCEPT ![p].readable = FALSE]
    /\ UNCHANGED <<selected_files, excluded_patterns, stack, out, console, gens>>

(***************************************************************************)
(* Specifications                                                          *)
(***************************************************************************)
File(data) == [kind |-> "file", data |-> data, readable |-> TRUE]
Dir        == [kind |-> "dir", data |-> <<>>, readable |-> TRUE]
Absent     == [kind |-> "absent", data |-> <<>>, readable |-> FALSE]

\* the tree of the session: env.c as given, b holds a NUL byte, k.c "x\n"
TreeWith(envc) ==
    (Root :> Dir) @@ (PEnv :> Dir) @@ (PEnvC :> File(envc))
    @@ (PB :> File(<<0, 120>>)) @@ (PKC :> File(<<120, 10>>)) @@ (PCsv :> Absent)
    @@ (PA :> Absent) @@ (PAK :> Absent)

\* a document that an earlier run left at the destination
PreviousDoc == <<Seg("banner", Root, 1), Seg("summary", Root, <<1, 0>>)>>

\* run(): a new CodebaseNormalizer, the root directory entered
Init ==
    /\ selected_files = {}
    /\ excluded_patterns = DefaultExcluded
    /\ stack = <<Root>>
    /\ fs = TreeWith(<<120>>)
    /\ out \in {NoDoc, PreviousDoc}
    /\ console = <<>>
    /\ gens = 0

\* what reading the destination can give, when the destination is selected
SelfReads == IF Dest \in selected_files THEN SelfReadOutcomes ELSE {<<>>}

NumberInputs == {lo..hi : lo \in 1..MaxIndex, hi \in 1..MaxIndex} \ {{}}

Next ==
    \/ ScanRaises
    \/ Choice0
    \/ Choice1NoItems
    \/ Choice1All
    \/ Choice1Text
    \/ \E idxs \in NumberInputs : Choice1Numbers(idxs)
    \/ Choice1Invalid
    \/ Choice2
    \/ Choice3
    \/ \E i \in 1..MaxIndex : Choice4Open(i)
    \/ Choice4NoDirs
    \/ \E i \in 1..MaxIndex : Choice4Invalid(i)
    \/ \E pat \in RegexInputs : Choice5Invalid(pat)
    \/ \E pat \in RegexInputs : Choice5(pat)
    \/ \E pat \in RegexInputs : Choice5WalkRaises(pat)
    \/ Choice6
    \/ Choice7
    \/ \E pat \in AddablePatterns : Choice8Add(pat)
    \/ \E i \in 1..MaxIndex : Choice8Remove(i)
    \/ Choice8Clear
    \/ Choice9Refused
    \/ \E exit \in BOOLEAN, dest \in DestOutcomes, selfRead \in SelfReads :
            Choice9(exit, dest, selfRead)

Spec == Init /\ [][Next]_vars

(***************************************************************************)
(* Generation over file contents and files that change after selection     *)
(***************************************************************************)
\* the bytes of the contents tried: LF, CR, 'x', and 0xE9 (Latin-1 e-acute,
\* not valid UTF-8 on its own)
ContentBytes == {10, 13, 120, 233}

MaxContentLen == 2

Contents == UNION {[1..n -> ContentBytes] : n \in 0..MaxContentLen}

\* the files that another process removes or makes unreadable
MutableFiles == {PB, PEnvC}

InitGen ==
    /\ selected_files = {}
    /\ excluded_patterns = DefaultExcluded
    /\ stack = <<Root>>
    /\ \E c \in Contents : fs = TreeWith(c)
    /\ out = NoDoc
    /\ console = <<>>
    /\ gens = 0

NextGen ==
    \/ Choice1All
    \/ Choice3
    \/ Choice7Raises
    \/ Choice8Clear
    \/ \E p \in MutableFiles : EnvDelete(p)
    \/ \E p \in MutableFiles : EnvChmod(p)
    \/ \E dest \in DestOutcomes, selfRead \in SelfReads : Choice9(TRUE, dest, selfRead)

SpecGen == InitGen /\ [][NextGen]_vars

(***************************************************************************)
(* Properties                                                              *)
(***************************************************************************)
\* a generation ran to its end: the success message was printed
GenerationCompleted ==
    /\ gens > 0
    /\ \E i \in DOMAIN console : console[i].text = "Normalized file generated"

\* the positions of the segments of one kind for one path
SegIdx(t, p) == {i \in DOMAIN out : out[i].t = t /\ out[i].path = p}

HeadIdx == {i \in DOMAIN out : out[i].t = "head"}

\* the selected paths that open and read at generation time
ReadableSelected == {p \in selected_files : StatOk(p) /\ OpenOk(p)}

\* C1: the selection never holds the path of a directory.
C1_NoDirectorySelected == \A p \in selected_files : ~is_dir(p)

\* C2: every path that a step adds to the selection is, when it is added, a
\* regular file that is classified as text.
C2_AddedAreTextFiles ==
    [][\A p \in selected_files' \ selected_files : is_file(p) /\ is_text_file(p)]_vars

\* the selection operations of the menu: options 1, 2, 3, 5 and 6
SelectionStep ==
    \/ Choice1All
    \/ Choice1Text
    \/ \E idxs \in NumberInputs : Choice1Numbers(idxs)
    \/ Choice2
    \/ Choice3
    \/ \E pat \in RegexInputs : Choice5(pat) \/ Choice5WalkRaises(pat)
    \/ Choice6

\* C3: the selection changes only in a step of a selection operation, and a
\* non-empty selection becomes empty only in a step of option 6.
C3_SelectionFrame ==
    [][/\ selected_files' # selected_files => SelectionStep
       /\ (selected_files # {} /\ selected_files' = {}) => Choice6]_vars

\* C3 witness: with files selected, the exclusions were cleared, a
\* subdirectory was entered and a document was generated
C3_Witness ==
    /\ selected_files # {}
    /\ excluded_patterns = {}
    /\ Len(stack) = 2
    /\ GenerationCompleted

\* C4: while nothing is selected, no step creates or changes the content of
\* the destination; a request to generate is answered with an error.
C4_EmptySelectionRefused ==
    [][selected_files = {} => out' = out]_vars

\* C4 witness: generation was refused and the document of an earlier run is
\* still at the destination
C4_Witness ==
    /\ selected_files = {}
    /\ out = PreviousDoc
    /\ console = <<Msg("error", "No files selected", 0)>>

\* C5: once the destination was opened, every selected path has its block
\* started, every path that can be stat-ed has its content or its error
\* marker written, and a generation that ran to its end wrote the summary.
C5_FailureIsolated ==
    (gens > 0 /\ out # NoDoc) =>
        /\ \A p \in selected_files : SegIdx("head", p) # {}
        /\ \A p \in selected_files :
              StatOk(p) => SegIdx("content", p) \cup SegIdx("error", p) # {}
        /\ GenerationCompleted => out[Len(out)].t = "summary"

\* C5 witness: b was deleted after it was selected, and env.c, which sorts
\* after it, has its content in the document that ends with the summary
C5_Witness ==
    /\ GenerationCompleted
    /\ {PB, PEnvC} \subseteq selected_files
    /\ ~StatOk(PB)
    /\ \E i \in SegIdx("head", PB) : \E j \in SegIdx("content", PEnvC) : i < j
    /\ out[Len(out)].t = "summary"

\* C6 as stated: one block per selected path, the blocks in ascending order
\* of the full path strings.
C6_BlocksInStringOrder ==
    GenerationCompleted =>
        /\ \A p \in selected_files : Cardinality(SegIdx("head", p)) = 1
        /\ \A i \in HeadIdx : \A j \in HeadIdx :
              i < j => StrLess(AbsStr(out[i].path), AbsStr(out[j].path))

\* C6 amended: one block per selected path and none for another path, a path
\* under the base shown relative to it and any other path shown absolute,
\* the blocks in ascending order of the paths compared part by part.
C6_BlocksInPathOrder ==
    GenerationCompleted =>
        /\ \A p \in selected_files : Cardinality(SegIdx("head", p)) = 1
        /\ \A i \in HeadIdx :
              /\ out[i].path \in selected_files
              /\ out[i].val = (IF IsUnder(out[i].path, out[1].path)
                               THEN RelStr(RelativeTo(out[i].path, out[1].path))
                               ELSE AbsStr(out[i].path))
        /\ \A i \in HeadIdx : \A j \in HeadIdx :
              i < j => PathLess(out[i].path, out[j].path)

\* C6 witness: env.c and env/k.c are selected and the document was generated
\* with env as its base, so that env.c lies outside the base
C6_Witness ==
    /\ GenerationCompleted
    /\ {PEnvC, PKC} \subseteq selected_files
    /\ out[1].path = PEnv
    /\ \E i \in SegIdx("head", PKC) : \E j \in SegIdx("head", PEnvC) :
          i < j /\ out[j].val = AbsStr(PEnvC)

\* C7: the content of the block of a file that was read is the file's text,
\* character for character, with one newline appended when the text does not
\* end with one (the text is compared as it is decoded, so that the encoding
\* of the document plays no part).
C7_RoundTrip ==
    GenerationCompleted =>
        \A i \in DOMAIN out :
            (out[i].t = "content" /\ out[i].path \in FsPaths) =>
                LET b    == fs[out[i].path].data
                    text == IF Utf8Valid(b) THEN Utf8Decode(b) ELSE Latin1Decode(b)
                IN  out[i].val = Utf8Encode(WithTrailingNewline(text))

\* C8: a selected file that reads is counted as successful whether or not it
\* is valid UTF-8; when it is not, its block has exactly one warning line and
\* the content follows it; when it is, its block has no warning line.
C8_FallbackDecoding ==
    GenerationCompleted =>
        /\ out[Len(out)].val[1] = Cardinality(ReadableSelected)
        /\ \A p \in ReadableSelected \cap FsPaths :
              IF Utf8Valid(fs[p].data)
              THEN SegIdx("warning", p) = {}
              ELSE /\ Cardinality(SegIdx("warning", p)) = 1
                   /\ \A i \in SegIdx("warning", p) :
                         /\ i < Len(out)
                         /\ out[i + 1].t = "content"
                         /\ out[i + 1].path = p

\* C8 witness: env.c is not valid UTF-8, was read with the fallback and
\* counted as successful
C8_Witness ==
    /\ GenerationCompleted
    /\ selected_files = {PEnvC}
    /\ OpenOk(PEnvC)
    /\ ~Utf8Valid(fs[PEnvC].data)
    /\ SegIdx("warning", PEnvC) # {}
    /\ out[Len(out)].val = <<1, 0>>

\* C9: every selected path that cannot be read has exactly one error marker
\* in the document, and the failed count is the number of these paths.
C9_ErrorMarker ==
    GenerationCompleted =>
        /\ out[Len(out)].val[2] = Cardinality(selected_files \ ReadableSelected)
        /\ \A p \in selected_files \ ReadableSelected :
              Cardinality(SegIdx("error", p)) = 1

\* C10: a step that reports an invalid regex pattern while every exclusion
\* pattern compiles leaves the selection as it was.
C10_InvalidRegexAddsNothing ==
    [][(/\ console' = <<Msg("error", "Invalid regex pattern", 0)>>
        /\ \A pat \in excluded_patterns : ~PatternRaises(pat))
       => selected_files' = selected_files]_vars

\* C10 witness: with files selected and exclusion patterns that all compile,
\* a regex selection failed on its pattern
C10_Witness ==
    /\ selected_files # {}
    /\ \A pat \in excluded_patterns : ~PatternRaises(pat)
    /\ stack # <<>>
    /\ console = <<Msg("error", "Invalid regex pattern", 0)>>

\* the files at any depth below d that no exclusion pattern matches (by
\* relative path or by name), that are classified as text and whose name
\* contains a case-insensitive match of pat
RegexTargets(pat, d) ==
    {p \in Universe :
        /\ Len(p) > Len(d)
        /\ IsUnder(p, d)
        /\ is_file(p)
        /\ ~ExcludeHit(p, d, excluded_patterns)
        /\ is_text_file(p)
        /\ regex_search(PathName(p), pat)}

C12_RegexCountDistinct ==
    [][\A pat \in RegexInputs :
          Choice5(pat) =>
              \/ console'[1].n = Cardinality(selected_files' \ selected_files)
              \/ console'[1].n = Cardinality(RegexTargets(pat, cwd))]_vars

(***************************************************************************)
(* Exclusion patterns typed by the user, tried on the names of the tree    *)
(***************************************************************************)
\* the characters of the patterns typed: '*', '.', '?', '[', 'e', 'v'
PatternChars == {42, 46, 63, 91, 101, 118}

MaxPatternLen == 3

TypedPatterns == UNION {[1..n -> PatternChars] : n \in 1..MaxPatternLen}

\* the number of patterns the user adds to the default ones
MaxAdded == 1

NextMatch ==
    \/ ScanRaises
    \/ Choice2
    \/ \E pat \in TypedPatterns :
          /\ Cardinality(excluded_patterns \ DefaultExcluded) < MaxAdded
          /\ Choice8Add(pat)

SpecMatch == Init /\ [][NextMatch]_vars

\* a pattern read as a shell wildcard: '*' is any run of characters, '?' is
\* one character, every other character is itself, letters in either case
RECURSIVE ShellMatch(_, _)
ShellMatch(text, pat) ==
    IF pat = <<>> THEN text = <<>>
    ELSE IF Head(pat) = 42
         THEN \/ ShellMatch(text, Tail(pat))
              \/ text # <<>> /\ ShellMatch(Tail(text), pat)
    ELSE IF Head(pat) = 63
         THEN text # <<>> /\ ShellMatch(Tail(text), Tail(pat))
    ELSE /\ text # <<>>
         /\ Lower(Head(text)) = Lower(Head(pat))
         /\ ShellMatch(Tail(text), Tail(pat))

\* C13: for every pattern in the exclusion set and every name of the tree,
\* match_pattern returns, and returns true exactly when the whole name
\* matches the pattern read as a shell wildcard.
C13_MatchIsShellWildcard ==
    \A pat \in excluded_patterns : \A p \in Universe \ {Root} :
        /\ ~PatternRaises(pat)
        /\ match_pattern(PathName(p), pat) <=> ShellMatch(PathName(p), pat)

\* C14: whatever exclusion patterns the user has added, no step ends the
\* session with an unexpected error.
C14_PatternsNeverEndSession ==
    [][(stack # <<>> /\ stack' = <<>>)
       => console' # <<Msg("error", "Unexpected error", 0)>>]_vars

(***************************************************************************)
(* Classification over names and contents                                  *)
(***************************************************************************)
\* a content of n bytes 'x' with one NUL byte at position k
NulAt(k, n) == [i \in 1..n |-> IF i = k THEN 0 ELSE 120]

\* the contents tried: empty, text, NUL first, NUL inside the sample's last
\* byte, NUL in the first byte after the sample
ProbeContents ==
    {<<>>, <<120>>, <<0>>, <<120, 0>>, NulAt(SampleLen, SampleLen), NulAt(SampleLen + 1, SampleLen + 1)}

\* env.c (a known extension), b (no extension) and d.csv (a text MIME type)
\* with the same content
TextTree(c) ==
    (Root :> Dir) @@ (PEnv :> Dir) @@ (PEnvC :> File(c))
    @@ (PB :> File(c)) @@ (PKC :> File(<<120, 10>>)) @@ (PCsv :> File(c))
    @@ (PA :> Absent) @@ (PAK :> Absent)

InitText ==
    /\ selected_files = {}
    /\ excluded_patterns = DefaultExcluded
    /\ stack = <<Root>>
    /\ \E c \in ProbeContents : fs = TextTree(c)
    /\ out = NoDoc
    /\ console = <<>>
    /\ gens = 0

NextText ==
    \/ Choice2
    \/ Choice3
    \/ Choice6
    \/ \E p \in MutableFiles : EnvDelete(p)
    \/ \E p \in MutableFiles : EnvChmod(p)

SpecText == InitText /\ [][NextText]_vars

\* the decision as the claim states it, for a path of the tree
IsTextDecision(p) ==
    LET ext == LowerStr(Suffix(PathName(p)))
    IN  IF ext \in common_code_extensions THEN TRUE
        ELSE IF ext \in MimeTextSuffixes THEN TRUE
        ELSE IF ~(fs[p].kind = "file" /\ fs[p].readable) THEN FALSE
        ELSE \A i \in 1..Len(fs[p].data) : i <= 1024 => fs[p].data[i] # 0

\* C15: is_text_file is the first-match-wins decision: a known extension,
\* else a text MIME type, else no NUL byte among the first 1024 bytes (an
\* empty file is text), and false when the sample cannot be read; option 2
\* selects the listed files for which this decision is true.
C15_IsTextDecision ==
    /\ [](\A p \in FsPaths : is_text_file(p) <=> IsTextDecision(p))
    /\ [][Choice2 =>
            selected_files' = selected_files \cup
                {p \in SeqRange(scan_directory(cwd).files) : IsTextDecision(p)}]_vars

\* C15 witness: option 2 selected b, which has no extension and a NUL byte
\* only after its first 1024 bytes
C15_Witness ==
    /\ console # <<>>
    /\ console[1].text = "Selected text files"
    /\ PB \in selected_files
    /\ Len(fs[PB].data) > 1024
    /\ fs[PB].data[1025] = 0

\* the directories between the scan root d and the path p
DirsBetween(p, d) == {SubSeq(p, 1, k) : k \in (Len(d) + 1)..(Len(p) - 1)}

\* an exclusion rule matches the name of the directory a
NameExcluded(a) ==
    \E pat \in excluded_patterns :
        ~PatternRaises(pat) /\ match_pattern(PathName(a), pat)

\* C16: no step adds to the selection a file that lies, at any depth, below
\* a directory of the scanned subtree whose name matches an exclusion rule.
C16_NothingBelowExcludedDir ==
    [][\A p \in selected_files' \ selected_files :
          \A a \in DirsBetween(p, cwd) : ~NameExcluded(a)]_vars

(***************************************************************************)
(* Generation over a tree with two subdirectories                          *)
(***************************************************************************)
\* /r/a/k.c besides /r/env/k.c
TwoDirTree == [TreeWith(<<120>>) EXCEPT ![PA] = Dir, ![PAK] = File(<<120>>)]

InitTree ==
    /\ selected_files = {}
    /\ excluded_patterns = DefaultExcluded
    /\ stack = <<Root>>
    /\ fs = TwoDirTree
    /\ out = NoDoc
    /\ console = <<>>
    /\ gens = 0

NextTree ==
    \/ Choice0
    \/ Choice1All
    \/ \E idxs \in NumberInputs : Choice1Numbers(idxs)
    \/ Choice3
    \/ \E i \in 1..MaxIndex : Choice4Open(i)
    \/ Choice8Clear
    \/ \E dest \in DestOutcomes, selfRead \in SelfReads : Choice9(TRUE, dest, selfRead)

SpecTree == InitTree /\ [][NextTree]_vars

\* the lines of the tree in the document, and the base they were rendered for
DocTree == out[2].val
DocBase == out[1].path

\* the group a file line belongs to: the text of the nearest directory line
\* above it, or "." when there is none
GroupOfLine(i) ==
    LET above == {j \in 1..(i - 1) : DocTree[j].t = "dir"}
    IN  IF above = {} THEN <<46>>
        ELSE DocTree[CHOOSE j \in above : \A k \in above : k <= j].text

C18_CountsAddUp ==
    GenerationCompleted =>
        LET written == {p \in selected_files : SegIdx("content", p) # {}}
            summary == out[Len(out)].val
        IN  /\ out[1].val = Cardinality(selected_files)
            /\ summary[1] = Cardinality(written)
            /\ summary[2] = Cardinality(selected_files \ written)
            /\ summary[1] + summary[2] = out[1].val

\* C18 witness: a generation over a file that was read, a file that was
\* deleted after its selection and a directory
C18_Witness ==
    /\ GenerationCompleted
    /\ selected_files = {PB, PEnv, PEnvC}
    /\ ~StatOk(PB)
    /\ OpenOk(PEnvC)
    /\ out[1].val = 3
    /\ out[Len(out)].val = <<1, 2>>

\* C19: in every step in which a document is generated, the destination is
\* not a member of the selection.
C19_DestinationNotSelected ==
    [][gens' = gens + 1 => Dest \notin selected_files]_vars

\* C20: a generation after which the user answers yes to "Exit after
\* generation?" ends the session: no navigate_directory call is left active.
C20_ExitEndsSession ==
    [][(\E dest \in DestOutcomes, selfRead \in SelfReadOutcomes :
            Choice9(TRUE, dest, selfRead))
       => stack' = <<>>]_vars
====
